---- MODULE Spec2Model ----
(***************************************************************************)
(* Model of the treewalk stage of dcp (src/src/treewalk.c): the libcircle  *)
(* callback DCOPY_do_treewalk, the file chunker DCOPY_stat_process_file    *)
(* and the directory expander DCOPY_stat_process_dir, run by several       *)
(* worker processes over one shared work queue and one file system.        *)
(***************************************************************************)
EXTENDS Integers, Sequences, FiniteSets, Bags, TLC

(***************************************************************************)
(* Bounds of the model.                                                    *)
(***************************************************************************)
\* number of worker processes that run the callback
NumWorkers == 2
\* how many copies of the initial TREEWALK item a run with duplicated
\* delivery starts with
MaxInitialCopies == 2

Workers == 1..NumWorkers

(***************************************************************************)
(* Program constants and C integer types.                                  *)
(***************************************************************************)
\* dcp.h (not part of src/): the fixed chunk size in bytes, a positive int
DCOPY_CHUNK_SIZE == 4194304

(***************************************************************************)
(* Unsigned C integers.  TLC's integers stop at 2^31 - 1, so a uint32_t or *)
(* uint64_t byte count is kept as its bytes, least significant first (4 or *)
(* 8 of them), and the arithmetic the code does on it is done on bytes.    *)
(***************************************************************************)
Base == 2^8

\* the k low bytes of the natural number n
RECURSIVE ToBytes(_, _)
ToBytes(n, k) == IF k = 0 THEN <<>> ELSE <<n % Base>> \o ToBytes(n \div Base, k - 1)

\* a uint64_t from its high and low 32 bit halves (each below 2^31 here)
U64(hi, lo) == ToBytes(lo, 4) \o ToBytes(hi, 4)

\* the number a byte sequence stands for, when it is below 2^31
RECURSIVE ToInt(_)
ToInt(b) == IF b = <<>> THEN 0
            ELSE IF \A i \in 1..Len(b) : b[i] = 0 THEN 0
            ELSE Head(b) + Base * ToInt(Tail(b))

\* (uint32_t)x of a uint64_t x: the low 32 bits
Uint32(x) == SubSeq(x, 1, 4)
\* a uint32_t converted to uint64_t (usual arithmetic conversions)
Widen64(x) == x \o <<0, 0, 0, 0>>

\* x / c and x % c for a byte sequence x and an int c, 0 < c < 2^23
RECURSIVE DivMod(_, _)
DivMod(x, c) ==
    IF x = <<>> THEN [q |-> <<>>, r |-> 0]
    ELSE LET hi == DivMod(Tail(x), c)
             cur == hi.r * Base + Head(x)
         IN  [q |-> <<cur \div c>> \o hi.q, r |-> cur % c]

\* x * c in the width of x (the carry out of the top byte is dropped)
RECURSIVE MulCarry(_, _, _)
MulCarry(x, c, carry) ==
    IF x = <<>> THEN <<>>
    ELSE LET t == Head(x) * c + carry
         IN  <<t % Base>> \o MulCarry(Tail(x), c, t \div Base)

Mul(x, c) == MulCarry(x, c, 0)

\* x < y for two byte sequences of the same width
RECURSIVE Less(_, _)
Less(x, y) ==
    IF x = <<>> THEN FALSE
    ELSE IF Tail(x) # Tail(y) THEN Less(Tail(x), Tail(y))
    ELSE Head(x) < Head(y)

\* the null pointer, as the value of op->dest_base_appendix
NULL == "(null)"

(***************************************************************************)
(* C strings.  A string is a TLA+ string; the terminating NUL is implicit. *)
(***************************************************************************)
\* the character s[i-1] of a C string, "" standing for the terminating NUL
CharAt(s, i) == IF i <= Len(s) THEN SubSeq(s, i, i) ELSE ""

\* strncmp(a, b, n): 0 when the first n characters agree (comparison stops
\* at a NUL), nonzero (here 1, only zero/nonzero is used) otherwise
RECURSIVE strncmp_from(_, _, _, _)
strncmp_from(a, b, n, i) ==
    IF i > n THEN 0
    ELSE IF CharAt(a, i) # CharAt(b, i) THEN 1
    ELSE IF CharAt(a, i) = "" THEN 0
    ELSE strncmp_from(a, b, n, i + 1)

strncmp(a, b, n) == strncmp_from(a, b, n, 1)

\* s + n : the string that starts n characters into s (n <= strlen(s))
StrSkip(s, n) == SubSeq(s, n + 1, Len(s))

(***************************************************************************)
(* Operations (dcp.h, dcp.c: not part of src/).  An encoded operation is   *)
(* modelled by the record of its six fields; decoding returns the fields   *)
(* that were encoded.                                                      *)
(***************************************************************************)
DCOPY_encode_operation(code, chunk, operand, source_base_offset, dest_base_appendix, file_size) ==
    [code |-> code, chunk |-> chunk, operand |-> operand,
     source_base_offset |-> source_base_offset,
     dest_base_appendix |-> dest_base_appendix, file_size |-> file_size]

\* the value of a worker's op while no operation has been delivered to it
NoOp == DCOPY_encode_operation("NONE", 0, "", 0, NULL, U64(0, 0))

(***************************************************************************)
(* The source file system, as lstat, opendir and readdir see it.           *)
(*   kind     what st_mode says: "dir", "reg", "lnk" (a symbolic link      *)
(*            itself, lstat does not follow it) or "fifo"                  *)
(*   size     st_size                                                      *)
(*   target   for a link, the kind of the object it points to              *)
(*   entries  for a directory, the names readdir returns, in order         *)
(*   lstat    "ok", "fail" (every lstat fails) or "flaky" (it may fail)    *)
(*   open     "ok", "fail" or "flaky": the same for opendir                *)
(*   readerr  0, or k > 0 when the k-th readdir call returns NULL for an   *)
(*            error instead of the k-th entry                              *)
(***************************************************************************)
Reg(sz) == [kind |-> "reg", size |-> sz, target |-> "none", entries |-> <<>>,
            lstat |-> "ok", open |-> "ok", readerr |-> 0]
Dir(names) == [kind |-> "dir", size |-> U64(0, 2^12), target |-> "none",
               entries |-> names, lstat |-> "ok", open |-> "ok", readerr |-> 0]
Lnk(to) == [kind |-> "lnk", size |-> U64(0, 3), target |-> to, entries |-> <<>>,
            lstat |-> "ok", open |-> "ok", readerr |-> 0]
Fifo == [kind |-> "fifo", size |-> U64(0, 0), target |-> "none", entries |-> <<>>,
         lstat |-> "ok", open |-> "ok", readerr |-> 0]

\* the S_IS* macros of <sys/stat.h> on the st_mode of a node
S_ISDIR(node) == node.kind = "dir"
S_ISREG(node) == node.kind = "reg"
S_ISLNK(node) == node.kind = "lnk"

SrcRoot == "/src"
SubDir == Dir(<<".", "..", "d">>)

\* the tree /src { a, ..h, sub { d } }
Tree(a, h, sub) ==
    [p \in {"/src", "/src/a", "/src/..h", "/src/sub", "/src/sub/d"} |->
        CASE p = "/src" -> Dir(<<".", "..", "a", "..h", "sub">>)
          [] p = "/src/a" -> a
          [] p = "/src/..h" -> h
          [] p = "/src/sub" -> sub
          [] p = "/src/sub/d" -> Reg(U64(0, 1))]

\* file sizes st_size can report: around the chunk size and around 2^32
SizeCases ==
    {U64(0, 0), U64(0, 1), U64(0, DCOPY_CHUNK_SIZE - 1), U64(0, DCOPY_CHUNK_SIZE),
     U64(0, DCOPY_CHUNK_SIZE + 1), U64(0, 2 * DCOPY_CHUNK_SIZE),
     U64(0, 2 * DCOPY_CHUNK_SIZE + 100),
     U64(1, 0), U64(1, 100), U64(1, 2 * DCOPY_CHUNK_SIZE)}

EmptyFile == Reg(U64(0, 0))
SmallFile == Reg(U64(0, DCOPY_CHUNK_SIZE + 1))

HCases ==
    {EmptyFile, Lnk("dir"), Lnk("reg"), Fifo,
     [EmptyFile EXCEPT !.lstat = "fail"], [EmptyFile EXCEPT !.lstat = "flaky"]}

SubCases ==
    {SubDir, [SubDir EXCEPT !.open = "fail"], [SubDir EXCEPT !.open = "flaky"],
     [SubDir EXCEPT !.readerr = 1], [SubDir EXCEPT !.readerr = 3]}

\* the tree /src { sub { d } }
SmallTree(sub) ==
    [p \in {"/src", "/src/sub", "/src/sub/d"} |->
        CASE p = "/src" -> Dir(<<".", "..", "sub">>)
          [] p = "/src/sub" -> sub
          [] p = "/src/sub/d" -> Reg(U64(0, 1))]

\* the trees of the runs with duplicated delivery
DupScenarios ==
    {SmallTree(SubDir), SmallTree([SubDir EXCEPT !.open = "flaky"])}

\* the trees of the runs under fairness
PermanentScenarios ==
    {Tree(EmptyFile, Lnk("dir"), SubDir),
     Tree(EmptyFile, [EmptyFile EXCEPT !.lstat = "fail"],
          [SubDir EXCEPT !.open = "fail"])}

\* the tree /src { a, b, c }: an empty file, a file of two whole chunks, a
\* file of two whole chunks and 100 bytes
FlatTree ==
    [p \in {"/src", "/src/a", "/src/b", "/src/c"} |->
        CASE p = "/src" -> Dir(<<".", "..", "a", "b", "c">>)
          [] p = "/src/a" -> Reg(U64(0, 0))
          [] p = "/src/b" -> Reg(U64(0, 2 * DCOPY_CHUNK_SIZE))
          [] p = "/src/c" -> Reg(U64(0, 2 * DCOPY_CHUNK_SIZE + 100))]

\* the trees of the runs without failures: directories and regular files
\* of less than 2^32 bytes, every lstat, opendir and readdir succeeds
NormalScenarios == {FlatTree, Tree(SmallFile, EmptyFile, SubDir)}

\* the source trees of the runs in which popen and mkdir can fail
FaultyDestScenarios ==
    {Tree(SmallFile, EmptyFile, SubDir),
     Tree(SmallFile, EmptyFile, [SubDir EXCEPT !.open = "flaky"])}

Scenarios ==
    {Tree(Reg(sz), EmptyFile, SubDir) : sz \in SizeCases}
    \cup {Tree(SmallFile, h, SubDir) : h \in HCases}
    \cup {Tree(SmallFile, EmptyFile, sub) : sub \in SubCases}

(***************************************************************************)
(* DCOPY_stat_process_file: the COPY operations of one regular file.       *)
(***************************************************************************)
\* uint32_t num_chunks = (uint32_t)file_size / DCOPY_CHUNK_SIZE;
NumChunks(file_size) == DivMod(Uint32(file_size), DCOPY_CHUNK_SIZE).q

\* the comparison with <= in the place of <
HasPartialChunk_OrEqual(num_chunks, file_size) ==
    ~Less(file_size, Widen64(Mul(num_chunks, DCOPY_CHUNK_SIZE)))

\* if(num_chunks * DCOPY_CHUNK_SIZE < file_size): the product is a uint32_t,
\* converted to uint64_t for the comparison
HasPartialChunk(num_chunks, file_size) ==
    Less(Widen64(Mul(num_chunks, DCOPY_CHUNK_SIZE)), file_size)

\* the chunker encoding the last partial chunk with the code of a walk
DCOPY_stat_process_file_TreewalkLast(op, file_size) ==
    LET num_chunks == NumChunks(file_size)
        n == ToInt(num_chunks)
        full == [i \in 1..n |-> DCOPY_encode_operation("COPY", i - 1, op.operand,
                    op.source_base_offset, op.dest_base_appendix, file_size)]
        last == DCOPY_encode_operation("TREEWALK", n, op.operand,
                    op.source_base_offset, op.dest_base_appendix, file_size)
    IN  IF HasPartialChunk(num_chunks, file_size) THEN Append(full, last) ELSE full

\* the chunker encoding the file_size field of the operation it was given
DCOPY_stat_process_file_IncomingSize(op, file_size) ==
    LET num_chunks == NumChunks(file_size)
        n == ToInt(num_chunks)
        full == [i \in 1..n |-> DCOPY_encode_operation("COPY", i - 1, op.operand,
                    op.source_base_offset, op.dest_base_appendix, op.file_size)]
        last == DCOPY_encode_operation("COPY", n, op.operand,
                    op.source_base_offset, op.dest_base_appendix, op.file_size)
    IN  IF HasPartialChunk(num_chunks, file_size) THEN Append(full, last) ELSE full

\* the operations enqueued, in the order of the enqueue calls
DCOPY_stat_process_file(op, file_size) ==
    LET num_chunks == NumChunks(file_size)
        n == ToInt(num_chunks)
        full == [i \in 1..n |->
                    DCOPY_encode_operation("COPY", i - 1, op.operand,
                        op.source_base_offset, op.dest_base_appendix, file_size)]
        \* after the loop chunk_index = num_chunks
        last == DCOPY_encode_operation("COPY", n, op.operand,
                    op.source_base_offset, op.dest_base_appendix, file_size)
    IN  IF HasPartialChunk(num_chunks, file_size) THEN Append(full, last) ELSE full

(***************************************************************************)
(* DCOPY_stat_process_dir, first part: the mkdir command and what running  *)
(* it does to the destination file system (a set of directory paths in     *)
(* normal form: one "/" before each component).                            *)
(***************************************************************************)
\* the command without -p
MkdirCommand_NoParents(op, dest_path) ==
    IF op.dest_base_appendix # NULL
    THEN "mkdir " \o dest_path \o "/" \o op.dest_base_appendix \o "/"
             \o StrSkip(op.operand, op.source_base_offset)
    ELSE "mkdir " \o dest_path \o "/"
             \o StrSkip(op.operand, op.source_base_offset)

\* the command with the whole operand: source_base_offset is not skipped
MkdirCommand_WholeOperand(op, dest_path) ==
    IF op.dest_base_appendix # NULL
    THEN "mkdir -p " \o dest_path \o "/" \o op.dest_base_appendix \o "/"
             \o op.operand
    ELSE "mkdir -p " \o dest_path \o "/" \o op.operand

\* sprintf(cmd_buf, "mkdir -p %s/%s/%s", ...) or sprintf(cmd_buf, "mkdir -p %s/%s", ...)
MkdirCommand(op, dest_path) ==
    IF op.dest_base_appendix # NULL
    THEN "mkdir -p " \o dest_path \o "/" \o op.dest_base_appendix \o "/"
             \o StrSkip(op.operand, op.source_base_offset)
    ELSE "mkdir -p " \o dest_path \o "/"
             \o StrSkip(op.operand, op.source_base_offset)

\* the destination path of an operation: what the command is given to create
DestDirPath(op, dest_path) == StrSkip(MkdirCommand(op, dest_path), Len("mkdir -p "))

\* the components of a path: the non-empty pieces between "/" characters
RECURSIVE SplitFrom(_, _, _, _)
SplitFrom(s, i, cur, acc) ==
    LET done == IF cur = "" THEN acc ELSE Append(acc, cur)
    IN  IF i > Len(s) THEN done
        ELSE IF CharAt(s, i) = "/" THEN SplitFrom(s, i + 1, "", done)
        ELSE SplitFrom(s, i + 1, cur \o CharAt(s, i), acc)

Components(path) == SplitFrom(path, 1, "", <<>>)

RECURSIVE PathOf(_)
PathOf(comps) == IF comps = <<>> THEN ""
                 ELSE PathOf(SubSeq(comps, 1, Len(comps) - 1))
                          \o "/" \o comps[Len(comps)]

HasPrefix(s, pre) == Len(s) >= Len(pre) /\ SubSeq(s, 1, Len(pre)) = pre

\* the mkdir system calls of the command "mkdir -p PATH" or "mkdir PATH"
\* (PATH without blanks or shell metacharacters), in order, each given by
\* the components of the directory it is for: with -p one call for every
\* directory from the top down to PATH, without -p one call for PATH
MkdirCalls(cmd) ==
    IF HasPrefix(cmd, "mkdir -p ")
    THEN LET comps == Components(StrSkip(cmd, Len("mkdir -p ")))
         IN  [k \in 1..Len(comps) |-> SubSeq(comps, 1, k)]
    ELSE LET comps == Components(StrSkip(cmd, Len("mkdir ")))
         IN  IF comps = <<>> THEN <<>> ELSE <<comps>>

\* what one mkdir system call for the directory of components comps can
\* return when the directories dirs exist: EEXIST, ENOENT for a missing
\* parent, success, and ENOSPC on a destination that can run out of space
MkdirCallResults(comps, dirs, faulty) ==
    LET parent == PathOf(SubSeq(comps, 1, Len(comps) - 1))
    IN  IF PathOf(comps) \in dirs THEN {"EEXIST"}
        ELSE IF parent # "" /\ parent \notin dirs THEN {"ENOENT"}
        ELSE IF faulty THEN {"ok", "ENOSPC"}
        ELSE {"ok"}

(***************************************************************************)
(* DCOPY_stat_process_dir, second part: one TREEWALK operation per entry.  *)
(***************************************************************************)
\* a test that compares one character only: it skips every name that
\* begins with "."
NotDot_OneCharacter(name) == strncmp(name, ".", 1) # 0 /\ strncmp(name, "..", 2) # 0

\* if((strncmp(curr_dir_name, ".", 2)) && (strncmp(curr_dir_name, "..", 3)))
NotDotOrDotDot(name) == strncmp(name, ".", 2) # 0 /\ strncmp(name, "..", 3) # 0

\* a child whose base offset is moved to the end of the parent's path
ChildOp_Rebased(op, name) ==
    DCOPY_encode_operation("TREEWALK", 0, op.operand \o "/" \o name,
        Len(op.operand), op.dest_base_appendix, op.file_size)

\* sprintf(newop_path, "%s/%s", op->operand, curr_dir_name) and the encoding
ChildOp(op, name) ==
    DCOPY_encode_operation("TREEWALK", 0, op.operand \o "/" \o name,
        op.source_base_offset, op.dest_base_appendix, op.file_size)

\* the operations the readdir loop enqueues for the names it reads, in order
RECURSIVE ChildOps(_, _)
ChildOps(op, names) ==
    IF names = <<>> THEN <<>>
    ELSE (IF NotDotOrDotDot(Head(names)) THEN <<ChildOp(op, Head(names))>> ELSE <<>>)
             \o ChildOps(op, Tail(names))

\* a loop that stops one entry before the end of the directory
NamesRead_DropsLast(node) ==
    IF node.readerr = 0 THEN SubSeq(node.entries, 1, Len(node.entries) - 1)
    ELSE SubSeq(node.entries, 1, node.readerr - 1)

\* the names readdir returns before it returns NULL (end of directory, or
\* the error of the readerr-th call)
NamesRead(node) ==
    IF node.readerr = 0 THEN node.entries
    ELSE SubSeq(node.entries, 1, node.readerr - 1)

(***************************************************************************)
(* The retry operations of the three retry sites.                          *)
(***************************************************************************)
\* a retry that loses the source base offset
RetryAfterLstat_NoOffset(op) ==
    DCOPY_encode_operation("TREEWALK", op.chunk, op.operand,
        0, op.dest_base_appendix, op.file_size)

RetryAfterLstat(op) ==
    DCOPY_encode_operation("TREEWALK", op.chunk, op.operand,
        op.source_base_offset, op.dest_base_appendix, op.file_size)

RetryUnsupported(op) ==
    DCOPY_encode_operation("TREEWALK", op.chunk, op.operand,
        op.source_base_offset, op.dest_base_appendix, op.file_size)

\* a retry that loses the destination appendix
RetryAfterOpendir_NoAppendix(op) ==
    DCOPY_encode_operation("TREEWALK", op.chunk, op.operand,
        op.source_base_offset, NULL, op.file_size)

RetryAfterOpendir(op) ==
    DCOPY_encode_operation("TREEWALK", op.chunk, op.operand,
        op.source_base_offset, op.dest_base_appendix, op.file_size)

(***************************************************************************)
(* State.                                                                  *)
(*   DCOPY_user_opts  the options: reliable_filesystem and dest_path       *)
(*   fs               the source file system (static during a run)         *)
(*   dest_faulty      whether popen and mkdir can fail on the destination  *)
(*   destdirs         the directories that exist under the destination     *)
(*   queue            the libcircle work queue, a bag of operations        *)
(*   worker           per worker process: pc, the operation delivered, and *)
(*                    for the current invocation the operations enqueued   *)
(*                    (out) and the steps taken (trail)                    *)
(*   initial          the operation the run started from                   *)
(*   shell            per worker, the child process popen started for the  *)
(*                    mkdir command: the system calls it has still to make *)
(*                    (todo), whether the command has -p (parents),        *)
(*                    whether it created a directory (made), its exit      *)
(*                    status                                               *)
(*   mkdirs           the operations whose mkdir command has run to its    *)
(*                    end with exit status 0                               *)
(*   issued           the operations for which popen was called with the   *)
(*                    mkdir command, whatever came of it                   *)
(*   delivered        the operands of the operations handed to a worker    *)
(*   probe            the last call of the two path predicates: the path,  *)
(*                    the outcome of each lstat, the two values returned   *)
(***************************************************************************)
VARIABLES DCOPY_user_opts, fs, dest_faulty, destdirs, queue, worker, initial,
          shell, mkdirs, issued, delivered, probe

vars == <<DCOPY_user_opts, fs, dest_faulty, destdirs, queue, worker, initial,
          shell, mkdirs, issued, delivered, probe>>

\* the value of shell[w] while worker w has no child process
NoShell == [todo |-> <<>>, parents |-> FALSE, made |-> FALSE, status |-> 0]

\* the value of probe while the path predicates have not been called
NoProbe == [path |-> "", lstat_dir |-> "none", lstat_reg |-> "none",
            is_directory |-> FALSE, is_regular_file |-> FALSE]

InitialOps ==
    {DCOPY_encode_operation("TREEWALK", 0, SrcRoot, off, app, U64(0, 0)) :
        off \in {0, Len(SrcRoot)}, app \in {NULL, "x"}}

\* the bag that holds n copies of the operation o
Copies(o, n) == [x \in {o} |-> n]

RECURSIVE BagOfSeq(_)
BagOfSeq(ops) == IF ops = <<>> THEN EmptyBag
                 ELSE SetToBag({Head(ops)}) (+) BagOfSeq(Tail(ops))

\* the state after start-up, for a set of source trees, a number of copies
\* of the initial operation, and whether the destination can be faulty
InitWith(trees, copies, faulty) ==
    /\ DCOPY_user_opts \in [reliable_filesystem : BOOLEAN, dest_path : {"/dst"}]
    /\ fs \in trees
    /\ dest_faulty \in faulty
    /\ destdirs = {}
    /\ initial \in InitialOps
    /\ queue = Copies(initial, copies)
    /\ worker = [w \in Workers |->
                    [pc |-> "idle", op |-> NoOp, out |-> <<>>, trail |-> <<>>]]
    /\ shell = [w \in Workers |-> NoShell]
    /\ mkdirs = {}
    /\ issued = {}
    /\ delivered = {}
    /\ probe = NoProbe

\* every operation is delivered once; the destination is without faults
\* over every source tree, and can be faulty over FaultyDestScenarios
Init ==
    \/ InitWith(Scenarios, 1, {FALSE})
    \/ InitWith(FaultyDestScenarios, 1, {TRUE})

\* the engine delivers the initial operation up to MaxInitialCopies times
InitDup == \E n \in 1..MaxInitialCopies : InitWith(DupScenarios, n, {FALSE})

\* a step whose enqueue replaces what the queue holds
Step_ReplacesQueue(w, pc, ops, events) ==
    /\ worker' = [worker EXCEPT ![w].pc = pc,
                                ![w].out = @ \o ops,
                                ![w].trail = @ \o events]
    /\ queue' = IF ops = <<>> THEN queue ELSE BagOfSeq(ops)

\* what one step of an invocation does to its worker and to the queue:
\* the new pc, the operations enqueued by the step, the steps recorded
Step(w, pc, ops, events) ==
    /\ worker' = [worker EXCEPT ![w].pc = pc,
                                ![w].out = @ \o ops,
                                ![w].trail = @ \o events]
    /\ queue' = queue (+) BagOfSeq(ops)

(***************************************************************************)
(* The queue engine hands one TREEWALK operation to a worker that is not   *)
(* inside the callback (COPY operations go to the copy stage).             *)
(***************************************************************************)
Deliver(w) ==
    /\ worker[w].pc \in {"idle", "returned"}
    /\ \E o \in BagToSet(queue) :
          /\ o.code = "TREEWALK"
          /\ queue' = queue (-) SetToBag({o})
          /\ worker' = [worker EXCEPT ![w] =
                 [pc |-> "treewalk", op |-> o, out |-> <<>>, trail |-> <<>>]]
          /\ delivered' = delivered \cup {o.operand}
    /\ UNCHANGED <<DCOPY_user_opts, fs, dest_faulty, destdirs, initial, shell, mkdirs,
                   issued,
                   probe>>

(***************************************************************************)
(* DCOPY_do_treewalk: lstat, then the retry-or-exit policy, the chunker    *)
(* (to its end) or the start of DCOPY_stat_process_dir.                    *)
(***************************************************************************)
\* stat(path): what a lookup that follows a final symbolic link would fill in
stat_follows_link(path) ==
    IF fs[path].kind = "lnk" THEN [fs[path] EXCEPT !.kind = fs[path].target]
    ELSE fs[path]

\* lstat(path, &statbuf) when it succeeds: the object itself, a final
\* symbolic link is not followed
lstat(path) == fs[path]

\* whether lstat(path) can succeed and can fail
LstatResults(path) ==
    IF path \notin DOMAIN fs \/ fs[path].lstat = "fail" THEN {"fail"}
    ELSE IF fs[path].lstat = "flaky" THEN {"ok", "fail"}
    ELSE {"ok"}

(***************************************************************************)
(* DCOPY_is_directory and DCOPY_is_regular_file: each does its own lstat,  *)
(* logs and returns false when it fails, and else tests st_mode.           *)
(***************************************************************************)
\* res is the outcome of the function's lstat
DCOPY_is_directory(path, res) ==
    IF res = "fail" THEN FALSE
    ELSE S_ISDIR(lstat(path)) /\ ~S_ISLNK(lstat(path))

DCOPY_is_regular_file(path, res) ==
    IF res = "fail" THEN FALSE
    ELSE S_ISREG(lstat(path)) /\ ~S_ISLNK(lstat(path))

\* the paths the predicates are called on: every object of the tree and a
\* path that names nothing
ProbePaths == DOMAIN fs \cup {"/src/none"}

\* a caller asks both predicates about one path
Classify(path) ==
    /\ \E r1 \in LstatResults(path), r2 \in LstatResults(path) :
          probe' = [path |-> path, lstat_dir |-> r1, lstat_reg |-> r2,
                    is_directory |-> DCOPY_is_directory(path, r1),
                    is_regular_file |-> DCOPY_is_regular_file(path, r2)]
    /\ UNCHANGED <<DCOPY_user_opts, fs, dest_faulty, destdirs, queue, worker,
                   initial, shell, mkdirs, issued, delivered>>

\* an expansion that goes to opendir without the mkdir command
ProcessDirStart_OpensFirst == "opendir"

\* where DCOPY_stat_process_dir begins: the mkdir command comes first
ProcessDirStart == "mkdir"

DCOPY_do_treewalk(w) ==
    LET op == worker[w].op IN
    /\ worker[w].pc = "treewalk"
    /\ \E res \in LstatResults(op.operand) :
          IF res = "fail"
          THEN IF DCOPY_user_opts.reliable_filesystem
               THEN Step(w, "exited", <<>>, <<"lstat_fail", "exit_failure">>)
               ELSE Step(w, "returned", <<RetryAfterLstat(op)>>,
                         <<"lstat_fail", "retry">>)
          ELSE LET statbuf == lstat(op.operand) IN
               IF S_ISDIR(statbuf) /\ ~S_ISLNK(statbuf)
               THEN Step(w, ProcessDirStart, <<>>, <<"lstat_ok", "process_dir">>)
               ELSE IF S_ISREG(statbuf) /\ ~S_ISLNK(statbuf)
               THEN Step(w, "returned", DCOPY_stat_process_file(op, statbuf.size),
                         <<"lstat_ok", "process_file">>)
               ELSE IF DCOPY_user_opts.reliable_filesystem
               THEN Step(w, "exited", <<>>, <<"lstat_ok", "unsupported", "exit_failure">>)
               ELSE Step(w, "returned", <<RetryUnsupported(op)>>,
                         <<"lstat_ok", "unsupported", "retry">>)
    /\ UNCHANGED <<DCOPY_user_opts, fs, dest_faulty, destdirs, initial, shell, mkdirs,
                   issued,
                   delivered, probe>>

(***************************************************************************)
(* DCOPY_stat_process_dir up to pclose.  popen starts a child process that *)
(* runs the mkdir command; pclose waits for it and its exit status is not  *)
(* looked at.  The child makes its mkdir system calls one by one while the *)
(* other workers and their children run.  popen returning NULL makes       *)
(* pclose(NULL) undefined: the process crashes or goes on.                 *)
(***************************************************************************)
PopenResults ==
    IF dest_faulty THEN {"forked", "popen_null_crash", "popen_null_goes_on"}
    ELSE {"forked"}

\* sprintf of the command and popen(cmd_buf, "r")
DCOPY_stat_process_dir_popen(w) ==
    LET op == worker[w].op
        cmd == MkdirCommand(op, DCOPY_user_opts.dest_path)
    IN
    /\ worker[w].pc = "mkdir"
    /\ \E res \in PopenResults :
          /\ issued' = issued \cup {op}
          /\ IF res = "forked"
             THEN /\ shell' = [shell EXCEPT ![w] =
                        [todo |-> MkdirCalls(cmd),
                         parents |-> HasPrefix(cmd, "mkdir -p "),
                         made |-> FALSE,
                         status |-> IF MkdirCalls(cmd) = <<>> THEN 1 ELSE 0]]
                  /\ Step(w, "pclose", <<>>, <<>>)
             ELSE /\ shell' = shell
                  /\ Step(w, IF res = "popen_null_crash" THEN "crashed" ELSE "opendir",
                          <<>>, <<res>>)
    /\ UNCHANGED <<DCOPY_user_opts, fs, dest_faulty, destdirs, initial, mkdirs,
                   delivered, probe>>

\* the child of worker w makes its next mkdir system call; the command
\* ends with status 1 at the first call that fails (with -p, EEXIST is not
\* a failure)
MkdirSystemCall(w) ==
    LET sh == shell[w]
        comps == Head(sh.todo)
    IN
    /\ worker[w].pc = "pclose"
    /\ sh.todo # <<>>
    /\ \E res \in MkdirCallResults(comps, destdirs, dest_faulty) :
          /\ destdirs' = IF res = "ok" THEN destdirs \cup {PathOf(comps)} ELSE destdirs
          /\ shell' = [shell EXCEPT ![w] =
                 IF res = "ok" \/ (res = "EEXIST" /\ sh.parents)
                 THEN [sh EXCEPT !.todo = Tail(sh.todo), !.made = @ \/ res = "ok"]
                 ELSE [sh EXCEPT !.todo = <<>>, !.status = 1]]
    /\ UNCHANGED <<DCOPY_user_opts, fs, dest_faulty, queue, worker, initial, mkdirs,
                   issued, delivered, probe>>

\* the child has exited: pclose(p) returns, its value is dropped
DCOPY_stat_process_dir_pclose(w) ==
    LET sh == shell[w] IN
    /\ worker[w].pc = "pclose"
    /\ sh.todo = <<>>
    /\ mkdirs' = IF sh.status = 0 THEN mkdirs \cup {worker[w].op} ELSE mkdirs
    /\ shell' = [shell EXCEPT ![w] = NoShell]
    /\ Step(w, "opendir", <<>>,
            IF sh.status = 0
            THEN <<IF sh.made THEN "mkdir_created" ELSE "mkdir_existed", "mkdir_status_0">>
            ELSE <<"mkdir_failed", "mkdir_status_1">>)
    /\ UNCHANGED <<DCOPY_user_opts, fs, dest_faulty, destdirs, initial, issued,
                   delivered, probe>>

(***************************************************************************)
(* DCOPY_stat_process_dir from opendir on: the retry-or-exit policy when   *)
(* the directory cannot be opened, else the readdir loop and closedir.     *)
(***************************************************************************)
OpendirResults(path) ==
    IF path \notin DOMAIN fs \/ fs[path].open = "fail" THEN {"fail"}
    ELSE IF fs[path].open = "flaky" THEN {"ok", "fail"}
    ELSE {"ok"}

DCOPY_stat_process_dir_walk(w) ==
    LET op == worker[w].op IN
    /\ worker[w].pc = "opendir"
    /\ \E res \in OpendirResults(op.operand) :
          IF res = "fail"
          THEN IF DCOPY_user_opts.reliable_filesystem
               THEN Step(w, "exited", <<>>, <<"opendir_fail", "exit_failure">>)
               ELSE Step(w, "returned", <<RetryAfterOpendir(op)>>,
                         <<"opendir_fail", "retry">>)
          ELSE Step(w, "returned", ChildOps(op, NamesRead(fs[op.operand])),
                    <<"opendir_ok",
                      IF fs[op.operand].readerr = 0 THEN "readdir_end"
                      ELSE "readdir_error",
                      "closedir">>)
    /\ UNCHANGED <<DCOPY_user_opts, fs, dest_faulty, destdirs, initial, shell, mkdirs,
                   issued,
                   delivered, probe>>

Next ==
    \E w \in Workers :
        \/ Deliver(w)
        \/ DCOPY_do_treewalk(w)
        \/ DCOPY_stat_process_dir_popen(w)
        \/ MkdirSystemCall(w)
        \/ DCOPY_stat_process_dir_pclose(w)
        \/ DCOPY_stat_process_dir_walk(w)

Spec == Init /\ [][Next]_vars

\* runs in which the initial operation may be delivered more than once
SpecDup == InitDup /\ [][Next]_vars

\* the steps of worker w
WorkerStep(w) ==
    \/ Deliver(w)
    \/ DCOPY_do_treewalk(w)
    \/ DCOPY_stat_process_dir_popen(w)
    \/ MkdirSystemCall(w)
    \/ DCOPY_stat_process_dir_pclose(w)
    \/ DCOPY_stat_process_dir_walk(w)

\* every worker process keeps running: it goes on inside the callback, and
\* the engine hands it an operation when it is free and one is queued
Fairness == \A w \in Workers : WF_vars(WorkerStep(w))

\* runs over trees with a permanent condition: a symbolic link, an object
\* whose lstat always fails, a directory that opendir never opens
InitPermanent == InitWith(PermanentScenarios, 1, {FALSE})

SpecPermanent == InitPermanent /\ [][Next]_vars /\ Fairness

\* worker w can take a step: it is inside the callback, or it is free and
\* a TREEWALK operation is queued (every step changes the worker's pc or
\* the calls its child has still to make)
WorkerEnabled(w) ==
    \/ worker[w].pc \in {"treewalk", "mkdir", "pclose", "opendir"}
    \/ /\ worker[w].pc \in {"idle", "returned"}
       /\ \E o \in BagToSet(queue) : o.code = "TREEWALK"

\* weak fairness of the steps of every worker, WF_vars(WorkerStep(w)), with
\* the enabling condition of WorkerStep(w) written as a state predicate
WeakFairness ==
    \A w \in Workers :
        []<>(~WorkerEnabled(w)) \/ []<><<WorkerStep(w)>>_vars

\* runs without failures, every worker process keeps running
InitNormal == InitWith(NormalScenarios, 1, {FALSE})

SpecNormal == InitNormal /\ [][Next]_vars /\ WeakFairness

\* the two path predicates called on the paths of a tree, any number of
\* times: the stage itself does not run
InitClassify == InitWith(Scenarios, 1, {FALSE})

NextClassify == \E path \in ProbePaths : Classify(path)

SpecClassify == InitClassify /\ [][NextClassify]_vars

(***************************************************************************)
(* Properties.                                                             *)
(***************************************************************************)
InTrail(w, e) == \E i \in 1..Len(worker[w].trail) : worker[w].trail[i] = e

LastEvent(w) == worker[w].trail[Len(worker[w].trail)]

\* the invocation of worker w ran the chunker to its end
Chunked(w) == worker[w].pc = "returned" /\ InTrail(w, "process_file")

\* ceil(F / c) of a uint64_t F, as a number
CeilDiv(F, c) == LET d == DivMod(F, c)
                 IN  ToInt(d.q) + (IF d.r > 0 THEN 1 ELSE 0)

IsZero(F) == \A i \in 1..Len(F) : F[i] = 0

\* the chunk indexes of the operations an invocation enqueued
ChunkIndexes(w) == {worker[w].out[i].chunk : i \in 1..Len(worker[w].out)}

\* C1: one call of DCOPY_stat_process_file on a file of size F enqueues
\* exactly ceil(F / C) COPY operations when F > 0 and none when F = 0, for
\* every uint64_t F, those of 2^32 and more included.
C1_ChunkCountLaw ==
    \A w \in Workers :
        Chunked(w) =>
            LET F == fs[worker[w].op.operand].size
                copies == {i \in 1..Len(worker[w].out) : worker[w].out[i].code = "COPY"}
            IN  Cardinality(copies) = (IF IsZero(F) THEN 0 ELSE CeilDiv(F, DCOPY_CHUNK_SIZE))

\* C2: the chunk indexes of the COPY operations of one chunking of a file
\* of size F are exactly 0 .. ceil(F / C) - 1, each carried by one
\* operation, and none is F / C when F is a multiple of C.
C2_ChunkIndexSet ==
    \A w \in Workers :
        Chunked(w) =>
            LET F == fs[worker[w].op.operand].size
                d == DivMod(F, DCOPY_CHUNK_SIZE)
            IN  /\ ChunkIndexes(w) = 0..(CeilDiv(F, DCOPY_CHUNK_SIZE) - 1)
                /\ Cardinality(ChunkIndexes(w)) = Len(worker[w].out)
                /\ d.r = 0 => ToInt(d.q) \notin ChunkIndexes(w)

\* the invocation of worker w is over: it returned or the process ended
Over(w) == worker[w].pc \in {"returned", "exited", "crashed"}

\* the policy of a failed step: in reliable mode the process has exited
\* with EXIT_FAILURE and the invocation enqueued nothing; else it returned
\* after enqueueing one operation, the TREEWALK operation it was given
RetryOrFatal(w) ==
    IF DCOPY_user_opts.reliable_filesystem
    THEN /\ worker[w].pc = "exited"
         /\ LastEvent(w) = "exit_failure"
         /\ worker[w].out = <<>>
    ELSE /\ worker[w].pc = "returned"
         /\ Len(worker[w].out) = 1
         /\ worker[w].out[1].code = "TREEWALK"
         /\ worker[w].out[1].chunk = worker[w].op.chunk
         /\ worker[w].out[1].operand = worker[w].op.operand
         /\ worker[w].out[1].source_base_offset = worker[w].op.source_base_offset
         /\ worker[w].out[1].dest_base_appendix = worker[w].op.dest_base_appendix
         /\ worker[w].out[1].file_size = worker[w].op.file_size

Delegated(w) == InTrail(w, "process_dir") \/ InTrail(w, "process_file")

\* C3: when the lstat of a TREEWALK operand fails, a reliable run exits
\* with failure status and enqueues nothing; an unreliable run enqueues
\* exactly one operation, identical to the one it was given, and returns
\* without calling the expander or the chunker.
C3_LookupFailurePolicy ==
    \A w \in Workers :
        InTrail(w, "lstat_fail") => (Over(w) /\ RetryOrFatal(w) /\ ~Delegated(w))

C3_Witness ==
    \E w \in Workers :
        /\ InTrail(w, "lstat_fail")
        /\ ~DCOPY_user_opts.reliable_filesystem
        /\ worker[w].op.source_base_offset > 0
        /\ worker[w].out = <<worker[w].op>>

\* C4: an object that is neither a directory nor a regular file (a symbolic
\* link to either included) is never expanded nor chunked; the invocation
\* follows the retry-or-exit policy and enqueues no COPY or child operation.
C4_UnsupportedPolicy ==
    \A w \in Workers :
        (/\ worker[w].pc # "treewalk"
         /\ InTrail(w, "lstat_ok")
         /\ fs[worker[w].op.operand].kind \notin {"dir", "reg"})
        => (Over(w) /\ RetryOrFatal(w) /\ ~Delegated(w))

C4_Witness ==
    \E w \in Workers :
        /\ InTrail(w, "lstat_ok")
        /\ fs[worker[w].op.operand].kind = "lnk"
        /\ fs[worker[w].op.operand].target = "dir"
        /\ ~DCOPY_user_opts.reliable_filesystem
        /\ worker[w].out = <<worker[w].op>>

\* C5: when opendir of the source directory fails no child operation is
\* enqueued: a reliable run exits with failure status, an unreliable run
\* enqueues exactly one operation, identical to the directory's own.
C5_OpenFailurePolicy ==
    \A w \in Workers :
        InTrail(w, "opendir_fail") => (Over(w) /\ RetryOrFatal(w))

C5_Witness ==
    \E w \in Workers :
        /\ InTrail(w, "opendir_fail")
        /\ ~DCOPY_user_opts.reliable_filesystem
        /\ worker[w].op.operand = "/src/sub"
        /\ worker[w].op.source_base_offset > 0
        /\ worker[w].out = <<worker[w].op>>

\* the entries of a directory other than "." and ".."
RealEntries(node) ==
    {node.entries[i] : i \in 1..Len(node.entries)} \ {".", ".."}

\* the invocation of worker w opened its directory and read it to the end
Expanded(w) == worker[w].pc = "returned" /\ InTrail(w, "readdir_end")

\* C6: a successful expansion of a directory with N entries other than "."
\* and ".." enqueues exactly N operations, all TREEWALK with chunk 0, one
\* per entry, with operand = the parent's operand, "/", the entry's name;
\* names that only begin with "." are entries like any other.
C6_DirectoryCompleteness ==
    \A w \in Workers :
        Expanded(w) =>
            LET op == worker[w].op
                out == worker[w].out
                names == RealEntries(fs[op.operand])
            IN  /\ Len(out) = Cardinality(names)
                /\ \A i \in 1..Len(out) : out[i].code = "TREEWALK" /\ out[i].chunk = 0
                /\ \A name \in names :
                      Cardinality({i \in 1..Len(out) :
                          out[i].operand = op.operand \o "/" \o name}) = 1

C6_Witness ==
    \E w \in Workers :
        /\ Expanded(w)
        /\ worker[w].op.operand = "/src"
        /\ Len(worker[w].out) = 3
        /\ \E i \in 1..3 : worker[w].out[i].operand = "/src/..h"

\* C7: every operation on the queue, and every operation a worker holds or
\* has enqueued, carries the source_base_offset and the dest_base_appendix
\* of the initial operation it derives from.
SameBase(o) ==
    /\ o.source_base_offset = initial.source_base_offset
    /\ o.dest_base_appendix = initial.dest_base_appendix

C7_BaseFieldsPreserved ==
    /\ \A o \in BagToSet(queue) : SameBase(o)
    /\ \A w \in Workers :
          /\ worker[w].pc # "idle" => SameBase(worker[w].op)
          /\ \A i \in 1..Len(worker[w].out) : SameBase(worker[w].out[i])

C7_Witness ==
    /\ initial.source_base_offset > 0
    /\ initial.dest_base_appendix # NULL
    /\ \E o \in BagToSet(queue) : o.code = "COPY" /\ o.operand = "/src/sub/d"
    /\ \E o \in BagToSet(queue) : o.code = "TREEWALK" /\ o.operand = "/src/..h"

\* a condition of the operand that no retry can change
Permanent(path) ==
    /\ path \in DOMAIN fs
    /\ \/ fs[path].lstat = "fail"
       \/ fs[path].kind \notin {"dir", "reg"}
       \/ fs[path].kind = "dir" /\ fs[path].open = "fail"

\* a TREEWALK operation for such an operand is queued or being handled
RetryOutstanding ==
    \/ \E o \in BagToSet(queue) : o.code = "TREEWALK" /\ Permanent(o.operand)
    \/ \E w \in Workers : /\ worker[w].pc \in {"treewalk", "mkdir", "pclose", "opendir"}
                          /\ Permanent(worker[w].op.operand)

\* C8: in an unreliable run the stage eventually stops enqueueing retries
\* for an operand whose failure is permanent: from some point on no
\* TREEWALK operation for it is queued or handled again.
C8_RetriesStop ==
    (~DCOPY_user_opts.reliable_filesystem) => <>[](~RetryOutstanding)

FailureEvents ==
    {"lstat_fail", "mkdir_failed", "popen_null_goes_on", "opendir_fail", "readdir_error"}

\* C9: an invocation in which a file system step failed (lstat, the
\* creation of the destination directory, opendir, readdir) never returns
\* as if it had succeeded: the process ends or the invocation's last act
\* is the enqueueing of a retry.
C9_NoErrorSwallowed ==
    \A w \in Workers :
        (worker[w].pc = "returned" /\ \E e \in FailureEvents : InTrail(w, e))
        => LastEvent(w) = "retry"

\* the destination directories one run of the mkdir command of o leaves
ExpectedDestDirs(o) ==
    LET comps == Components(DCOPY_user_opts.dest_path)
                 \o (IF o.dest_base_appendix # NULL
                     THEN Components(o.dest_base_appendix) ELSE <<>>)
                 \o Components(StrSkip(o.operand, o.source_base_offset))
    IN  {PathOf(SubSeq(comps, 1, k)) : k \in 1..Len(comps)}

\* C10: however often and by however many workers the same directory
\* operation is expanded, and however the mkdir system calls of their
\* commands interleave, no command fails because a directory is there
\* already (the expansion goes on to opendir), nothing but the directories
\* of the commands issued is ever created, and once the commands have
\* ended the destination directories are those that one expansion of each
\* directory operation creates.
C10_IdempotentCreate ==
    /\ destdirs \subseteq UNION {ExpectedDestDirs(o) : o \in issued}
    /\ UNION {ExpectedDestDirs(o) : o \in mkdirs} \subseteq destdirs
    /\ (\A w \in Workers : worker[w].pc # "pclose") =>
          /\ mkdirs = issued
          /\ destdirs = UNION {ExpectedDestDirs(o) : o \in mkdirs}
    /\ \A w \in Workers :
          /\ shell[w].status = 0
          /\ ~InTrail(w, "mkdir_failed")
          /\ InTrail(w, "mkdir_existed") =>
                /\ InTrail(w, "mkdir_status_0")
                /\ worker[w].pc # "crashed"
                /\ (worker[w].pc = "exited" \/ LastEvent(w) = "retry")
                       => InTrail(w, "opendir_fail")

\* two workers were given the same directory operation and their commands
\* ran at the same time: each created one of the directories and found the
\* other in place, and both went on to expand
C10_Witness ==
    \E w1, w2 \in Workers :
        /\ w1 # w2
        /\ worker[w1].op = worker[w2].op
        /\ InTrail(w1, "mkdir_created")
        /\ InTrail(w2, "mkdir_created")
        /\ Expanded(w1)
        /\ Expanded(w2)
        /\ Len(worker[w2].out) > 0

\* no TREEWALK operation is queued and no invocation is in progress
Quiescent ==
    /\ \A o \in BagToSet(queue) : o.code # "TREEWALK"
    /\ \A w \in Workers : worker[w].pc \notin {"treewalk", "mkdir", "pclose", "opendir"}

\* the pairs (file, chunk index) of a source tree: the regular files f and
\* the indexes 0 <= i < ceil(size(f) / C)
ExpectedCopies ==
    UNION {{<<f, i>> : i \in 0..(CeilDiv(fs[f].size, DCOPY_CHUNK_SIZE) - 1)} :
              f \in {p \in DOMAIN fs : fs[p].kind = "reg"}}

\* the COPY operations on the queue (the copy stage is not run: they stay)
QueuedCopies == {o \in BagToSet(queue) : o.code = "COPY"}

\* how many operations for (file f, chunk index i) the queue holds
CopyCount(f, i) ==
    LET os == {o \in QueuedCopies : o.operand = f /\ o.chunk = i}
        RECURSIVE Sum(_)
        Sum(s) == IF s = {} THEN 0
                  ELSE LET o == CHOOSE x \in s : TRUE
                       IN  CopiesIn(o, queue) + Sum(s \ {o})
    IN  Sum(os)

\* C11: in a run from one initial TREEWALK operation over a static tree of
\* directories and regular files of less than 2^32 bytes, without failures
\* and with every operation delivered once, the COPY operations enqueued
\* are one per (file f, chunk index i) with 0 <= i < ceil(size(f) / C) and
\* none for an empty file: never more, never for another pair, and all of
\* them once the walk is over; for /src { a = 0, b = 2C, c = 2C + 100 }
\* that is 0, 2 and 3 operations.
C11_WholeRunExactness ==
    /\ \A o \in QueuedCopies : <<o.operand, o.chunk>> \in ExpectedCopies
    /\ \A x \in ExpectedCopies : CopyCount(x[1], x[2]) <= 1
    /\ Quiescent =>
          /\ \A x \in ExpectedCopies : CopyCount(x[1], x[2]) = 1
          /\ fs = FlatTree =>
                /\ Cardinality({o \in QueuedCopies : o.operand = "/src/a"}) = 0
                /\ Cardinality({o \in QueuedCopies : o.operand = "/src/b"}) = 2
                /\ Cardinality({o \in QueuedCopies : o.operand = "/src/c"}) = 3

C11_Witness ==
    /\ Quiescent
    /\ fs = FlatTree
    /\ \A w \in Workers : worker[w].pc = "returned"
    /\ Cardinality(QueuedCopies) = 5
    /\ \E o \in QueuedCopies : o.operand = "/src/c" /\ o.chunk = 2

\* the directory a path names: empty components and repeated "/" dropped
DirNamed(path) == PathOf(Components(path))

\* operand with its first source_base_offset characters removed
Stripped(o) == StrSkip(o.operand, o.source_base_offset)

\* C12 as stated: the directory created for an operation is the one named
\* by the concatenation dest_root, dest_base_appendix (when present),
\* operand without its first source_base_offset characters.
C12_ConcatenatedPath ==
    \A o \in mkdirs :
        LET root == DCOPY_user_opts.dest_path
            cat == IF o.dest_base_appendix # NULL
                   THEN root \o o.dest_base_appendix \o Stripped(o)
                   ELSE root \o Stripped(o)
        IN  DirNamed(cat) \in destdirs

\* C12 amended: the path given to the creation is dest_root, "/",
\* dest_base_appendix and "/" (when an appendix is present), operand without
\* its first source_base_offset characters, and the directory it names
\* exists after the creation; from the initial /src with source_base_offset
\* = length of "/src" and no appendix, the directory created for /src/sub is
\* dest_root + "/sub" and the path derived for /src/sub/d names
\* dest_root + "/sub/d".
C12_JoinedPath ==
    LET root == DCOPY_user_opts.dest_path IN
    /\ \A o \in mkdirs :
          LET path == DestDirPath(o, root)
              dir == DirNamed(path)
          IN  /\ path = (IF o.dest_base_appendix # NULL
                         THEN root \o "/" \o o.dest_base_appendix \o "/" \o Stripped(o)
                         ELSE root \o "/" \o Stripped(o))
              /\ dir \in destdirs
              /\ (/\ o.operand = "/src/sub"
                  /\ o.source_base_offset = Len("/src")
                  /\ o.dest_base_appendix = NULL)
                 => dir = root \o "/sub"
    /\ \A o \in BagToSet(queue) :
          (/\ o.operand = "/src/sub/d"
           /\ o.source_base_offset = Len("/src")
           /\ o.dest_base_appendix = NULL)
          => DirNamed(DestDirPath(o, root)) = root \o "/sub/d"

C12_Witness ==
    /\ \E o \in mkdirs : /\ o.operand = "/src/sub"
                         /\ o.source_base_offset = Len("/src")
                         /\ o.dest_base_appendix = "x"
    /\ "/dst/x/sub" \in destdirs
    /\ \E o \in BagToSet(queue) : o.code = "COPY" /\ o.operand = "/src/sub/d"

\* C13: DCOPY_is_directory returns true iff its lstat succeeds and the
\* object is a directory that is not a symbolic link, DCOPY_is_regular_file
\* returns true iff its lstat succeeds and the object is a regular file
\* that is not a symbolic link; they are never both true, both false for
\* a symbolic link whatever it points to, both false when the lstat fails
\* or the path names nothing, and a call neither ends the process nor
\* enqueues anything.
C13_PathClassifier ==
    probe # NoProbe =>
        LET path == probe.path
            there == path \in DOMAIN fs
        IN  /\ probe.is_directory <=>
                   (there /\ probe.lstat_dir = "ok" /\ fs[path].kind = "dir")
            /\ probe.is_regular_file <=>
                   (there /\ probe.lstat_reg = "ok" /\ fs[path].kind = "reg")
            /\ ~(probe.is_directory /\ probe.is_regular_file)
            /\ (there /\ fs[path].kind = "lnk")
                   => (~probe.is_directory /\ ~probe.is_regular_file)
            /\ probe.lstat_dir = "fail" => ~probe.is_directory
            /\ probe.lstat_reg = "fail" => ~probe.is_regular_file
            /\ ~there => (~probe.is_directory /\ ~probe.is_regular_file)
            /\ queue = Copies(initial, 1)
            /\ \A w \in Workers : worker[w].pc = "idle" /\ worker[w].out = <<>>

C13_Witness ==
    /\ probe.path = "/src/..h"
    /\ fs["/src/..h"].kind = "lnk"
    /\ fs["/src/..h"].target = "dir"
    /\ probe.lstat_dir = "ok"
    /\ probe.lstat_reg = "ok"
    /\ ~probe.is_directory
    /\ ~probe.is_regular_file

\* C14: every COPY operation of a chunking, the one of the last partial
\* chunk included, carries the operand of the TREEWALK operation that was
\* chunked and, as file_size, the whole st_size the lstat of that
\* invocation reported: not the length of its chunk and not the file_size
\* of the operation that was delivered.
C14_CopyCarriesStatSize ==
    /\ \A w \in Workers :
          Chunked(w) =>
              \A i \in 1..Len(worker[w].out) :
                  /\ worker[w].out[i].code = "COPY"
                  /\ worker[w].out[i].operand = worker[w].op.operand
                  /\ worker[w].out[i].file_size = fs[worker[w].op.operand].size
    /\ \A o \in QueuedCopies : o.file_size = fs[o.operand].size

C14_Witness ==
    \E w \in Workers :
        /\ Chunked(w)
        /\ worker[w].op.operand = "/src/a"
        /\ fs["/src/a"].size = U64(0, 2 * DCOPY_CHUNK_SIZE + 100)
        /\ Len(worker[w].out) = 3
        /\ worker[w].out[3].chunk = 2
        /\ worker[w].out[3].file_size = U64(0, 2 * DCOPY_CHUNK_SIZE + 100)
        /\ worker[w].out[3].file_size # worker[w].op.file_size

\* the four outcomes of an invocation that is over
\* (i) the process has ended (exit(EXIT_FAILURE), or the crash of
\* pclose(NULL)) and the invocation enqueued nothing
OutcomeEnded(w) ==
    /\ worker[w].pc \in {"exited", "crashed"}
    /\ worker[w].out = <<>>

\* (ii) one retry: a TREEWALK operation for the operand delivered, alone
OutcomeRetry(w) ==
    /\ worker[w].pc = "returned"
    /\ LastEvent(w) = "retry"
    /\ Len(worker[w].out) = 1
    /\ worker[w].out[1].code = "TREEWALK"
    /\ worker[w].out[1].operand = worker[w].op.operand

\* (iii) child TREEWALK operations only (none for a directory without
\* entries): operands below the operand delivered
OutcomeChildren(w) ==
    /\ worker[w].pc = "returned"
    /\ LastEvent(w) = "closedir"
    /\ \A i \in 1..Len(worker[w].out) :
          /\ worker[w].out[i].code = "TREEWALK"
          /\ HasPrefix(worker[w].out[i].operand, worker[w].op.operand \o "/")
          /\ Len(worker[w].out[i].operand) > Len(worker[w].op.operand) + 1

\* (iv) COPY operations only (none for an empty file)
OutcomeCopies(w) ==
    /\ worker[w].pc = "returned"
    /\ LastEvent(w) = "process_file"
    /\ \A i \in 1..Len(worker[w].out) : worker[w].out[i].code = "COPY"

Outcomes(w) ==
    {k \in 1..4 : \/ k = 1 /\ OutcomeEnded(w)
                  \/ k = 2 /\ OutcomeRetry(w)
                  \/ k = 3 /\ OutcomeChildren(w)
                  \/ k = 4 /\ OutcomeCopies(w)}

\* C15: an invocation that is over has exactly one of four outcomes: the
\* process ended with nothing enqueued, one retry TREEWALK operation for
\* the same operand and nothing else, child TREEWALK operations only, COPY
\* operations only.  No invocation enqueues a retry together with a child
\* or a COPY operation, nor a COPY together with a TREEWALK operation, and
\* an invocation that is not over has enqueued nothing yet.
C15_ExclusiveOutcomes ==
    \A w \in Workers :
        LET op == worker[w].op
            out == worker[w].out
            retries == {i \in 1..Len(out) :
                           out[i].code = "TREEWALK" /\ out[i].operand = op.operand}
        IN  /\ Over(w) => Cardinality(Outcomes(w)) = 1
            /\ retries # {} => Len(out) = 1
            /\ \A i, j \in 1..Len(out) : out[i].code = out[j].code
            /\ worker[w].pc \in {"treewalk", "mkdir", "pclose", "opendir"} => out = <<>>

\* a run in which an expansion left a child on the queue, one worker ended
\* an invocation with a retry and another with the two COPY operations of a file
C15_Witness ==
    /\ \E w \in Workers : Outcomes(w) = {2}
    /\ \E w \in Workers : Outcomes(w) = {4} /\ Len(worker[w].out) = 2
    /\ \E o \in BagToSet(queue) : o.code = "TREEWALK" /\ o.operand = "/src/sub"

\* worker w is handed an operation in this step
Delivered(w) == worker[w].pc \in {"idle", "returned"} /\ worker'[w].pc = "treewalk"

\* the operations worker w enqueues in this step
Enqueued(w) == SubSeq(worker'[w].out, Len(worker[w].out) + 1, Len(worker'[w].out))

\* what a step of the stage leaves alone: the options, the source file
\* system, the other workers, the operation being handled, and every
\* operation on the queue (the engine takes away the one it delivers, the
\* callback only adds the operations it enqueues)
FrameStep ==
    /\ DCOPY_user_opts' = DCOPY_user_opts
    /\ fs' = fs
    /\ initial' = initial
    /\ \A w \in Workers :
          worker'[w] # worker[w] =>
              /\ \A v \in Workers \ {w} : worker'[v] = worker[v]
              /\ IF Delivered(w)
                 THEN /\ BagIn(worker'[w].op, queue)
                      /\ queue' = queue (-) SetToBag({worker'[w].op})
                 ELSE /\ worker'[w].op = worker[w].op
                      /\ queue \sqsubseteq queue'
                      /\ queue' = queue (+) BagOfSeq(Enqueued(w))

\* two invocations that are over, were given the same operation and met the
\* same file system outcomes have enqueued the same operations
SameInSameOut ==
    \A v, w \in Workers :
        (/\ Over(v) /\ Over(w)
         /\ worker[v].op = worker[w].op
         /\ worker[v].trail = worker[w].trail)
        => worker[v].out = worker[w].out

\* C16: the stage only appends to the queue and keeps no state from one
\* operation to the next: a step of an invocation removes and changes no
\* queued operation, changes neither the options nor the source file
\* system nor another worker, and what an invocation enqueues is fixed by
\* the operation delivered, the options and the file system, whichever
\* worker runs it and whatever that worker handled before.
C16_AppendOnlyFrame == [][FrameStep]_vars /\ []SameInSameOut

\* the same operation handled by both workers, one after the other: the
\* second was given the retry the first enqueued, and enqueued the same
C16_Witness ==
    /\ worker[1].pc = "returned"
    /\ worker[2].pc = "returned"
    /\ worker[1].op = worker[2].op
    /\ worker[1].trail = worker[2].trail
    /\ worker[1].out = <<worker[1].op>>
    /\ worker[2].out = worker[1].out
    /\ \E o \in BagToSet(queue) : o.code = "COPY"

\* operation o is for an entry of the directory operation p is for
EntryOf(o, p) ==
    /\ p.operand \in DOMAIN fs
    /\ \E i \in 1..Len(fs[p.operand].entries) :
          o.operand = p.operand \o "/" \o fs[p.operand].entries[i]

\* the steps of the trail that stand for the popen and pclose of the command
MkdirEvents ==
    {"mkdir_created", "mkdir_existed", "mkdir_failed", "popen_null_crash",
     "popen_null_goes_on"}

\* the creation of the destination directory that mirrors the parent of
\* o's operand has been issued (and, on a destination without faults, the
\* command has run)
ParentCreationIssued(o) ==
    \E p \in issued :
        /\ EntryOf(o, p)
        /\ SameBase(p)
        /\ ~dest_faulty => p \in mkdirs

\* C17: in an expansion the creation of the destination directory is issued
\* and waited for before the source directory is opened and before any
\* operation is enqueued, also when the opendir then fails and the
\* directory is retried; hence for every operation below the initial
\* operand, queued or delivered, the creation of the destination
\* directory that mirrors its parent was issued before.
C17_CreateBeforeOpen ==
    /\ \A w \in Workers :
          LET trail == worker[w].trail IN
          /\ \A i \in 1..Len(trail) :
                trail[i] \in {"opendir_ok", "opendir_fail"} =>
                    /\ \E j \in 1..(i - 1) : trail[j] \in MkdirEvents
                    /\ worker[w].op \in issued
          /\ (InTrail(w, "process_dir") /\ worker[w].out # <<>>)
                => worker[w].op \in issued
          /\ (worker[w].pc # "idle" /\ worker[w].op.operand # initial.operand)
                => ParentCreationIssued(worker[w].op)
    /\ \A o \in BagToSet(queue) :
          o.operand # initial.operand => ParentCreationIssued(o)

C17_Witness ==
    /\ \E w \in Workers :
          /\ worker[w].op.operand = "/src/sub"
          /\ InTrail(w, "opendir_fail")
          /\ LastEvent(w) = "retry"
          /\ worker[w].op \in issued
          /\ worker[w].op \in mkdirs
    /\ \E o \in BagToSet(queue) : o.code = "TREEWALK" /\ o.operand = "/src/..h"
    /\ \E o \in BagToSet(queue) : o.code = "TREEWALK" /\ o.operand = "/src/sub"

\* a delivery hands out an operand that was never handed out before
DeliveredOnce ==
    \A w \in Workers : Delivered(w) => worker'[w].op.operand \notin delivered

\* C18: over a finite static tree of directories and regular files, without
\* lookup or open failures and with workers that keep running, every run
\* reaches a state, and stays in it, where no TREEWALK operation is queued
\* and no invocation is in progress; the operand of every object of the
\* tree has then been handled, and no operand is ever handled twice.
C18_NormalTermination ==
    /\ <>[]Quiescent
    /\ [][DeliveredOnce]_vars
    /\ [](Quiescent => delivered = DOMAIN fs)

C18_Witness ==
    /\ Quiescent
    /\ fs = Tree(SmallFile, EmptyFile, SubDir)
    /\ delivered = {"/src", "/src/a", "/src/..h", "/src/sub", "/src/sub/d"}
    /\ worker[1].pc = "returned"
    /\ worker[2].pc = "returned"
    /\ Cardinality(QueuedCopies) = 3
====
